---------------------------- MODULE Spec2Model ----------------------------
(***************************************************************************)
(* Germany energy dashboard: the two script variants                       *)
(*   src/notebooks/app.py   ("notebook")                                   *)
(*   src/streamlit_app.py   ("streamlit")                                  *)
(* as a state machine.  One run of the script is one cycle: the module     *)
(* level loads the CSV, create_dashboard preprocesses, filters, computes   *)
(* the four KPIs and the aggregate tables, and every widget interaction    *)
(* reruns the script from the top.                                         *)
(*                                                                         *)
(* Numbers.  A cell of the table is a natural number or NaN (a missing     *)
(* value).  A computed float is a record [k, n, d]: k = "num" is the       *)
(* rational n/d in lowest terms, k = "inf" / "ninf" / "nan" are the IEEE   *)
(* values numpy produces on a division by zero (it warns, it never         *)
(* raises).  A displayed value is what the f-string "{x:.1f}%" prints:     *)
(* the number rounded to tenths, or the text inf / -inf / nan.             *)
(***************************************************************************)
EXTENDS Integers, Sequences, FiniteSets, TLC

(***************************************************************************)
(* Bounds of the enumerated inputs.                                        *)
(***************************************************************************)
MaxRows == 2
MaxVal == 1
MaxDay == 2
MaxCycles == 2

(***************************************************************************)
(* Columns of the CSV the scripts read.                                    *)
(***************************************************************************)
SolarGen == "DE_solar_generation_actual"
WindGen == "DE_wind_generation_actual"
WindOnGen == "DE_wind_onshore_generation_actual"
WindOffGen == "DE_wind_offshore_generation_actual"
LoadActual == "DE_load_actual_entsoe_transparency"
LoadForecast == "DE_load_forecast_entsoe_transparency"
SolarCap == "DE_solar_capacity"
WindCap == "DE_wind_capacity"
WindOnCap == "DE_wind_onshore_capacity"
WindOffCap == "DE_wind_offshore_capacity"
SolarProfile == "DE_solar_profile"
WindProfile == "DE_wind_profile"
WindOnProfile == "DE_wind_onshore_profile"
WindOffProfile == "DE_wind_offshore_profile"

AllCols ==
    { SolarGen, WindGen, WindOnGen, WindOffGen, LoadActual, LoadForecast,
      SolarCap, WindCap, WindOnCap, WindOffCap,
      SolarProfile, WindProfile, WindOnProfile, WindOffProfile }

\* A missing cell (pandas NaN); every real cell is >= 0.
NaN == 0 - 1

Vals == {NaN} \cup (0 .. MaxVal)

(***************************************************************************)
(* Floats.                                                                 *)
(***************************************************************************)
Abs(x) == IF x < 0 THEN 0 - x ELSE x

RECURSIVE GCD(_, _)
GCD(a, b) == IF b = 0 THEN a ELSE GCD(b, a % b)

\* The rational n/d (d # 0) in lowest terms with a positive denominator.
Num(n, d) ==
    LET g == GCD(Abs(n), Abs(d))
        s == IF d < 0 THEN 0 - 1 ELSE 1
    IN  [k |-> "num", n |-> (s * n) \div g, d |-> (s * d) \div g]

FInf == [k |-> "inf", n |-> 0, d |-> 1]
FNegInf == [k |-> "ninf", n |-> 0, d |-> 1]
FNaN == [k |-> "nan", n |-> 0, d |-> 1]

\* A cell as a float.
OfCell(v) == IF v = NaN THEN FNaN ELSE Num(v, 1)

IsNum(x) == x.k = "num"

Neg(x) ==
    CASE x.k = "num" -> Num(0 - x.n, x.d)
      [] x.k = "inf" -> FNegInf
      [] x.k = "ninf" -> FInf
      [] OTHER -> FNaN

\* IEEE addition.
Add(x, y) ==
    CASE x.k = "nan" \/ y.k = "nan" -> FNaN
      [] x.k = "num" /\ y.k = "num" -> Num(x.n * y.d + y.n * x.d, x.d * y.d)
      [] x.k = "num" -> y
      [] y.k = "num" -> x
      [] x.k = y.k -> x
      [] OTHER -> FNaN

Sub(x, y) == Add(x, Neg(y))

\* IEEE division as numpy scalars and pandas Series do it: x/0 is +-inf or
\* nan with a RuntimeWarning, never a ZeroDivisionError.
Div(x, y) ==
    CASE x.k = "nan" \/ y.k = "nan" -> FNaN
      [] x.k = "num" /\ y.k = "num" ->
            IF y.n # 0 THEN Num(x.n * y.d, x.d * y.n)
            ELSE IF x.n > 0 THEN FInf
            ELSE IF x.n < 0 THEN FNegInf
            ELSE FNaN
      [] x.k = "num" -> Num(0, 1)
      [] y.k = "num" ->
            IF y.n >= 0 THEN x ELSE Neg(x)
      [] OTHER -> FNaN

\* x * c for a positive integer c.
Scale(x, c) == IF x.k = "num" THEN Num(x.n * c, x.d) ELSE x

FAbs(x) ==
    CASE x.k = "num" -> Num(Abs(x.n), x.d)
      [] x.k = "nan" -> FNaN
      [] OTHER -> FInf

(***************************************************************************)
(* Display: f"{x:.1f}%".                                                   *)
(***************************************************************************)
\* n/d (d > 0) rounded to the nearest integer, ties to even.
RoundHalfEven(n, d) ==
    LET q == n \div d
        r == n % d
    IN  IF 2 * r < d THEN q
        ELSE IF 2 * r > d THEN q + 1
        ELSE IF q % 2 = 0 THEN q ELSE q + 1

\* The text of a metric's value: [k |-> "num", tenths |-> t] prints t/10
\* with one decimal; "inf", "ninf", "nan" print inf, -inf, nan.
Fmt1(x) ==
    IF x.k = "num" THEN [k |-> "num", tenths |-> RoundHalfEven(x.n * 10, x.d)]
    ELSE [k |-> x.k, tenths |-> 0]

\* value="N/A" of the except branches.
NA == [k |-> "N/A", tenths |-> 0]

\* A metric not rendered in this cycle.
Unset == [k |-> "unset", tenths |-> 0]


(***************************************************************************)
(* Calendar.  A timestamp is the number of quarter hours since             *)
(* 2019-12-31T00:00Z; a date is the number of days since 2019-12-31.  The  *)
(* window of the model spans the turn of the year, so two years and two    *)
(* months occur.                                                           *)
(***************************************************************************)
SlotsPerDay == 24 * 4

\* utc_timestamp.dt.date
DateOf(ts) == ts \div SlotsPerDay

\* utc_timestamp.dt.year (valid for the dates of 2019-12-31 .. 2020-12-31)
YearOf(ts) == IF DateOf(ts) = 0 THEN 2019 ELSE 2020

\* utc_timestamp.dt.month (valid for the dates of 2019-12-31 .. 2020-01-31)
MonthOf(ts) == IF DateOf(ts) = 0 THEN 12 ELSE 1

(***************************************************************************)
(* The loader and the preprocessor.                                        *)
(***************************************************************************)
\* rows with r inserted before the first row of a later timestamp
RECURSIVE InsertByTs(_, _)
InsertByTs(r, rows) ==
    IF rows = <<>> THEN <<r>>
    ELSE IF r.ts < Head(rows).ts THEN <<r>> \o rows
    ELSE <<Head(rows)>> \o InsertByTs(r, Tail(rows))

\* Mutant: the rows left in file order.
SortByTsKeepOrder(rows) == rows

\* df.sort_values("utc_timestamp")
RECURSIVE SortByTs(_)
SortByTs(rows) ==
    IF rows = <<>> THEN <<>>
    ELSE InsertByTs(Head(rows), SortByTs(Tail(rows)))

\* df['year'], df['month'], df['date'] derived from utc_timestamp
AddCalendar(rows) ==
    [i \in 1 .. Len(rows) |->
        [ts |-> rows[i].ts, v |-> rows[i].v,
         year |-> YearOf(rows[i].ts),
         month |-> MonthOf(rows[i].ts),
         date |-> DateOf(rows[i].ts)]]

\* The first lines of create_dashboard: to_datetime, sort, derive.
Preprocess(rows) == AddCalendar(SortByTs(rows))

(***************************************************************************)
(* The filters.                                                            *)
(***************************************************************************)
\* Mutant: the end of the range excluded.
DateMaskEndExclusive(r, start_date, end_date) ==
    r.date >= start_date /\ r.date < end_date

\* mask = (df['date'] >= start_date) & (df['date'] <= end_date)
DateMask(r, start_date, end_date) == r.date >= start_date /\ r.date <= end_date

\* Mutant: a single date taken as the start of an open range.
filterByDateRangeFromStart(table, selected_dates) ==
    IF Len(selected_dates) = 2
    THEN LET Keep(r) == DateMask(r, selected_dates[1], selected_dates[2])
         IN  SelectSeq(table, Keep)
    ELSE IF Len(selected_dates) = 1
    THEN LET Keep(r) == r.date >= selected_dates[1]
         IN  SelectSeq(table, Keep)
    ELSE table

\* if len(selected_dates) == 2: df.loc[mask] else: df
filterByDateRange(table, selected_dates) ==
    IF Len(selected_dates) = 2
    THEN LET Keep(r) == DateMask(r, selected_dates[1], selected_dates[2])
         IN  SelectSeq(table, Keep)
    ELSE table

\* Mutant: isin without the "if selected_years" guard: an empty selection
\* selects nothing.
filterByYearsUnguarded(table, selected_years) ==
    LET Keep(r) == r.year \in selected_years
    IN  SelectSeq(table, Keep)

\* if selected_years: df[df['year'].isin(selected_years)] else: df
filterByYears(table, selected_years) ==
    IF selected_years # {}
    THEN LET Keep(r) == r.year \in selected_years
         IN  SelectSeq(table, Keep)
    ELSE table

(***************************************************************************)
(* Column reductions of pandas; all of them skip NaN.                      *)
(***************************************************************************)
\* the non-missing cells of column c, in row order
RECURSIVE Cells(_, _)
Cells(view, c) ==
    IF view = <<>> THEN <<>>
    ELSE IF Head(view).v[c] = NaN THEN Cells(Tail(view), c)
    ELSE <<Head(view).v[c]>> \o Cells(Tail(view), c)

RECURSIVE SeqSum(_)
SeqSum(s) == IF s = <<>> THEN 0 ELSE Head(s) + SeqSum(Tail(s))

RECURSIVE SeqMax(_)
SeqMax(s) ==
    IF Len(s) = 1 THEN Head(s)
    ELSE LET m == SeqMax(Tail(s)) IN IF Head(s) >= m THEN Head(s) ELSE m

\* Series.sum(): 0 when nothing is left
SumCol(view, c) == SeqSum(Cells(view, c))

\* Series.mean(): NaN when nothing is left
MeanCol(view, c) ==
    LET s == Cells(view, c)
    IN  IF s = <<>> THEN FNaN ELSE Num(SeqSum(s), Len(s))

\* Series.max(): NaN when nothing is left
MaxCol(view, c) ==
    LET s == Cells(view, c)
    IN  IF s = <<>> THEN FNaN ELSE Num(SeqMax(s), 1)

\* mean() of a Series of floats: NaN is skipped, an infinity is kept
RECURSIVE FloatSum(_)
FloatSum(s) == IF s = <<>> THEN Num(0, 1) ELSE Add(Head(s), FloatSum(Tail(s)))

RECURSIVE DropNaN(_)
DropNaN(s) ==
    IF s = <<>> THEN <<>>
    ELSE IF Head(s).k = "nan" THEN DropNaN(Tail(s))
    ELSE <<Head(s)>> \o DropNaN(Tail(s))

MeanFloats(s) ==
    LET t == DropNaN(s)
    IN  IF t = <<>> THEN FNaN ELSE Div(FloatSum(t), Num(Len(t), 1))

(***************************************************************************)
(* The four KPIs.  Each sits in its own try / bare except: a KeyError of   *)
(* a missing column gives value="N/A"; nothing else in the block raises.   *)
(***************************************************************************)
avg_renewable_share(view) ==
    Scale(Div(Add(MeanCol(view, SolarGen), MeanCol(view, WindGen)),
              MeanCol(view, LoadActual)), 100)

solar_utilization(view) ==
    Scale(Div(MeanCol(view, SolarGen), MaxCol(view, SolarCap)), 100)

offshore_share(view) ==
    Scale(Div(MaxCol(view, WindOffCap), MaxCol(view, WindCap)), 100)

\* 1 - abs(actual - forecast) / actual, row by row
AccuracyOfRow(r) ==
    LET a == OfCell(r.v[LoadActual])
        f == OfCell(r.v[LoadForecast])
    IN  Sub(Num(1, 1), Div(FAbs(Sub(a, f)), a))

load_forecast_accuracy(view) ==
    Scale(MeanFloats([i \in 1 .. Len(view) |-> AccuracyOfRow(view[i])]), 100)

\* The columns each KPI block subscripts.
KpiCols(k) ==
    CASE k = 1 -> {SolarGen, WindGen, LoadActual}
      [] k = 2 -> {SolarCap, SolarGen}
      [] k = 3 -> {WindCap, WindOffCap}
      [] k = 4 -> {LoadActual, LoadForecast}

KpiValue(k, view) ==
    CASE k = 1 -> avg_renewable_share(view)
      [] k = 2 -> solar_utilization(view)
      [] k = 3 -> offshore_share(view)
      [] k = 4 -> load_forecast_accuracy(view)

\* Mutant: one try around the whole KPI section, so that a missing column
\* of any KPI takes all four down.
KpiBlockPerPage(k, cols, view) ==
    IF (UNION {KpiCols(j) : j \in 1 .. 4}) \subseteq cols
    THEN Fmt1(KpiValue(k, view)) ELSE NA

\* One "with col: try: ... st.metric(value=f"{x:.1f}%") except: N/A" block.
KpiBlock(k, cols, view) ==
    IF KpiCols(k) \subseteq cols THEN Fmt1(KpiValue(k, view)) ELSE NA

(***************************************************************************)
(* The aggregators.                                                        *)
(***************************************************************************)
numeric_columns == {SolarGen, WindGen, LoadActual}
wind_generation_columns == {WindOnGen, WindOffGen}
capacity_columns == {SolarCap, WindCap, WindOnCap, WindOffCap}
profile_columns == {SolarProfile, WindProfile, WindOnProfile, WindOffProfile}
latest_columns == {SolarGen, SolarCap, WindGen, WindCap}

\* The elements of a finite set of integers in increasing order.
RECURSIVE SortedSeq(_)
SortedSeq(S) ==
    IF S = {} THEN <<>>
    ELSE LET m == CHOOSE x \in S : \A y \in S : x <= y
         IN  <<m>> \o SortedSeq(S \ {m})

DatesOf(view) == {view[i].date : i \in 1 .. Len(view)}
YearsOf(view) == {view[i].year : i \in 1 .. Len(view)}
MonthsOf(view) == {view[i].month : i \in 1 .. Len(view)}

SetMin(S) == CHOOSE x \in S : \A y \in S : x <= y
SetMax(S) == CHOOSE x \in S : \A y \in S : x >= y

RowsOfDate(view, d) == LET Keep(r) == r.date = d IN SelectSeq(view, Keep)
RowsOfYear(view, y) == LET Keep(r) == r.year = y IN SelectSeq(view, Keep)
RowsOfMonth(view, m) == LET Keep(r) == r.month = m IN SelectSeq(view, Keep)

\* Mutant: groupby('date').sum() in place of the resampling: only the days
\* that have records.
DailySumByGroup(view) ==
    LET ds == SortedSeq(DatesOf(view))
    IN  [i \in 1 .. Len(ds) |->
            [date |-> ds[i],
             v |-> [c \in numeric_columns |-> SumCol(RowsOfDate(view, ds[i]), c)]]]

\* filtered_df[['utc_timestamp'] + numeric_columns]
\*     .resample('D', on='utc_timestamp').sum().reset_index()
\* One bin per day from the first to the last day of the view; the sum of
\* a bin without a value is 0.
DailySum(view) ==
    IF view = <<>> THEN <<>>
    ELSE LET first == SetMin(DatesOf(view))
             last == SetMax(DatesOf(view))
         IN  [i \in 1 .. (last - first + 1) |->
                [date |-> first + i - 1,
                 v |-> [c \in numeric_columns |->
                          SumCol(RowsOfDate(view, first + i - 1), c)]]]

\* analysis_df.groupby('year').agg({onshore: 'mean', offshore: 'mean'})
YearlyWind(view) ==
    LET ys == SortedSeq(YearsOf(view))
    IN  [i \in 1 .. Len(ys) |->
            [year |-> ys[i],
             v |-> [c \in wind_generation_columns |->
                      MeanCol(RowsOfYear(view, ys[i]), c)]]]

\* Mutant: the capacities reduced with 'mean'.
YearlyCapacityMean(view) ==
    LET ys == SortedSeq(YearsOf(view))
    IN  [i \in 1 .. Len(ys) |->
            [year |-> ys[i],
             v |-> [c \in capacity_columns |->
                      MeanCol(RowsOfYear(view, ys[i]), c)]]]

\* analysis_df.groupby('year').agg({each capacity column: 'max'})
YearlyCapacity(view) ==
    LET ys == SortedSeq(YearsOf(view))
    IN  [i \in 1 .. Len(ys) |->
            [year |-> ys[i],
             v |-> [c \in capacity_columns |->
                      MaxCol(RowsOfYear(view, ys[i]), c)]]]

\* filtered_df.groupby('month').agg({solar, wind, load: 'mean'})
MonthlyPatterns(view) ==
    LET ms == SortedSeq(MonthsOf(view))
    IN  [i \in 1 .. Len(ms) |->
            [month |-> ms[i],
             v |-> [c \in numeric_columns |->
                      MeanCol(RowsOfMonth(view, ms[i]), c)]]]

\* filtered_df.agg({each profile column: 'mean'}), each bar y = mean * 100
CapacityFactors(view) ==
    <<[v |-> [c \in profile_columns |-> Scale(MeanCol(view, c), 100)]]>>

\* Python's max(x, 0): x when x is NaN (no comparison with NaN is true)
PyMax0(x) == IF x.k = "num" /\ x.n < 0 THEN Num(0, 1) ELSE x

\* The two pies of filtered_df.iloc[-1]: [generating, available capacity]
LatestPies(view) ==
    LET latest_data == view[Len(view)]
        gen(c) == OfCell(latest_data.v[c])
    IN  <<[solar_values |-> <<gen(SolarGen), PyMax0(Sub(gen(SolarCap), gen(SolarGen)))>>,
           wind_values |-> <<gen(WindGen), PyMax0(Sub(gen(WindCap), gen(WindGen)))>>]>>

(***************************************************************************)
(* The input files of the model.  A file is [cols, rows]: the columns of   *)
(* its header and its rows in file order, each [ts, v] with v[c] the cell  *)
(* of column c (NaN for a column the file does not have: never read).      *)
(* Timestamps are distinct and a file has at least one row.                *)
(***************************************************************************)
FileRow(ts, v) == [ts |-> ts, v |-> v]

BaseCells == [c \in AllCols |-> 1]

\* n rows at midnight of consecutive days from 2020-01-01 on
Midnights(n) == [i \in 1 .. n |-> i * SlotsPerDay]

\* Every cell 1 except one column, which holds any values.
FocusFiles ==
    UNION { { [cols |-> AllCols,
               rows |-> [i \in 1 .. n |->
                           FileRow(Midnights(n)[i],
                                   [BaseCells EXCEPT ![t[1]] = t[2][i]])]] :
                t \in AllCols \X [1 .. n -> Vals] } :
            n \in 1 .. MaxRows }

\* Every cell 1 and one column not in the file.
AbsentFiles ==
    UNION { { [cols |-> AllCols \ {c},
               rows |-> [i \in 1 .. n |->
                           FileRow(Midnights(n)[i], [BaseCells EXCEPT ![c] = NaN])]] :
                c \in AllCols } :
            n \in 1 .. MaxRows }

\* The timestamps of the files that vary in time: two quarter hours of
\* 2019-12-31 and midnight of each later day.
TimeStamps == {0, 1} \cup {d * SlotsPerDay : d \in 1 .. MaxDay}

Min(a, b) == IF a <= b THEN a ELSE b

\* Rows at any distinct timestamps in any file order; row i holds
\* min(i, MaxVal) in every column.
TimedFiles ==
    UNION { { [cols |-> AllCols,
               rows |-> [i \in 1 .. n |->
                           FileRow(ts[i], [c \in AllCols |-> Min(i, MaxVal)])]] :
                ts \in { f \in [1 .. n -> TimeStamps] :
                           \A i, j \in 1 .. n : i # j => f[i] # f[j] } } :
            n \in 1 .. MaxRows }

\* The fixtures of the specification's testable properties, dated
\* 2020-01-01 and 2020-01-02.
Cells6(solar, wind, load, solar_cap, wind_cap, wind_offshore_cap) ==
    [c \in AllCols |->
        CASE c = SolarGen -> solar
          [] c = WindGen -> wind
          [] c = LoadActual -> load
          [] c = SolarCap -> solar_cap
          [] c = WindCap -> wind_cap
          [] c = WindOffCap -> wind_offshore_cap
          [] OTHER -> NaN]

\* 9: two rows, the second without capacities
FixtureEndToEnd ==
    [cols |-> {SolarGen, WindGen, LoadActual, SolarCap, WindCap, WindOffCap},
     rows |-> << FileRow(SlotsPerDay, Cells6(10, 20, 100, 50, 100, 20)),
                 FileRow(SlotsPerDay + 1, Cells6(20, 10, 90, NaN, NaN, NaN)) >>]

\* 7: solar sum 50, wind sum 30, load sum 0
FixtureZeroLoad ==
    [cols |-> AllCols,
     rows |-> << FileRow(SlotsPerDay, [BaseCells EXCEPT ![SolarGen] = 50,
                                          ![WindGen] = 30, ![LoadActual] = 0]) >>]

\* 5: one day, solar 1, 2, 3, 4
FixtureSingleDay ==
    [cols |-> AllCols,
     rows |-> [i \in 1 .. 4 |->
                 FileRow(SlotsPerDay + i - 1, [BaseCells EXCEPT ![SolarGen] = i])]]

\* 6: one year, every capacity 100, 100, 150, 150
FixtureCapacity ==
    [cols |-> AllCols,
     rows |-> [i \in 1 .. 4 |->
                 FileRow(SlotsPerDay + i - 1,
                         [c \in AllCols |->
                            IF c \in {SolarCap, WindCap, WindOnCap, WindOffCap}
                            THEN (IF i <= 2 THEN 100 ELSE 150) ELSE 1])]]

Fixtures == {FixtureEndToEnd, FixtureZeroLoad, FixtureSingleDay, FixtureCapacity}

Files == FocusFiles \cup AbsentFiles \cup TimedFiles \cup Fixtures

\* A file that does not exist has no content.
NoFile == [cols |-> {}, rows |-> <<>>]

(***************************************************************************)
(* State.                                                                  *)
(***************************************************************************)
VARIABLES
    variant,            \* "notebook" | "streamlit": which script runs
    plotly,             \* whether "import plotly" succeeds
    fileExists,         \* whether data/time_series_15min_singleindex.csv exists
    file,               \* its content
    pc,                 \* "start" | "loaded" | "kpis" | "done" | "crashed"
    fileReads,          \* calls of pd.read_csv so far
    df,                 \* the table: loaded, then preprocessed
    selected_dates,     \* what st.sidebar.date_input returned
    selected_years,     \* what st.sidebar.multiselect returned
    filtered_df,        \* the date-range view
    analysis_df,        \* the year-membership view
    kpi,                \* the value of each of the four st.metric
    charts,             \* what each chart block handed to st.plotly_chart
    reports,            \* the st.error messages of this cycle
    warnings,           \* the st.warning messages of this cycle
    uncaught            \* the exception that left the script, "" if none

vars ==
    << variant, plotly, fileExists, file, pc, fileReads, df, selected_dates,
       selected_years, filtered_df, analysis_df, kpi, charts, reports,
       warnings, uncaught >>

env == << variant, plotly, fileExists, file >>

\* The chart blocks after the KPIs, in the order the notebook script runs
\* them.
ChartNames ==
    << "daily_df", "latest_data", "yearly_wind", "yearly_capacity",
       "monthly_patterns", "capacity_factors" >>

NoChart == [state |-> "none", data |-> <<>>]
Chart(data) == [state |-> "chart", data |-> data]
Placeholder == [state |-> "warning", data |-> <<>>]

NoKpis == [k \in 1 .. 4 |-> Unset]
NoCharts == [i \in 1 .. Len(ChartNames) |-> NoChart]

\* A view that was not computed (distinct from an empty view).
NoView == << [computed |-> FALSE] >>

MsgPlotlyMissing == "Plotly is not installed."
MsgFileNotFound == "Data file not found."
MsgError == "An error occurred"
MsgChartsDisabled == "Plotly charts are disabled"
MsgNoData == "No data available for the selected date range"

Init ==
    /\ variant \in {"notebook", "streamlit"}
    /\ plotly \in BOOLEAN
    /\ fileExists \in BOOLEAN
    /\ file \in (IF fileExists THEN Files ELSE {NoFile})
    /\ pc = "start"
    /\ fileReads = 0
    /\ df = <<>>
    /\ selected_dates = <<>>
    /\ selected_years = {}
    /\ filtered_df = NoView
    /\ analysis_df = NoView
    /\ kpi = NoKpis
    /\ charts = NoCharts
    /\ reports = <<>>
    /\ warnings = <<>>
    /\ uncaught = ""

(***************************************************************************)
(* Module level: the imports and the load.                                 *)
(*   notebook:  the imports and pd.read_csv stand outside every try, so an *)
(*              ImportError or a FileNotFoundError leaves the script.      *)
(*   streamlit: a failed plotly import is reported with st.error and the   *)
(*              script goes on; read_csv stands inside the try, and        *)
(*              "except FileNotFoundError" reports it.                     *)
(***************************************************************************)
LoadData ==
    /\ pc = "start"
    /\ IF variant = "notebook" /\ ~plotly
       THEN /\ pc' = "crashed"
            /\ uncaught' = "ImportError"
            /\ UNCHANGED << fileReads, df, reports >>
       ELSE LET imported == IF plotly THEN <<>> ELSE <<MsgPlotlyMissing>>
            IN  /\ fileReads' = fileReads + 1
                /\ IF fileExists
                   THEN /\ df' = SortByTs(file.rows)
                        /\ pc' = "loaded"
                        /\ reports' = imported
                        /\ uncaught' = uncaught
                   ELSE IF variant = "streamlit"
                   THEN /\ pc' = "done"
                        /\ reports' = Append(imported, MsgFileNotFound)
                        /\ UNCHANGED << df, uncaught >>
                   ELSE /\ pc' = "crashed"
                        /\ uncaught' = "FileNotFoundError"
                        /\ UNCHANGED << df, reports >>
    /\ UNCHANGED << env, selected_dates, selected_years, filtered_df,
                    analysis_df, kpi, charts, warnings >>

(***************************************************************************)
(* create_dashboard up to the KPI section: preprocess, read the two        *)
(* widgets, filter by date range, render the four metrics.  The widgets    *)
(* belong to the framework: what they return is an input of the cycle, a   *)
(* tuple of zero to two dates between min_value and max_value (in either   *)
(* order) and a subset of the years offered.                               *)
(***************************************************************************)
\* min_date = df['utc_timestamp'].min().date(), max_date likewise
min_date(table) == SetMin(DatesOf(table))
max_date(table) == SetMax(DatesOf(table))

DateSelections(table) ==
    UNION { [1 .. n -> min_date(table) .. max_date(table)] : n \in 0 .. 2 }

RenderKpis ==
    /\ pc = "loaded"
    /\ LET table == Preprocess(df)
       IN  \E dates \in DateSelections(table), years \in SUBSET YearsOf(table) :
               LET view == filterByDateRange(table, dates)
               IN  /\ df' = table
                   /\ selected_dates' = dates
                   /\ selected_years' = years
                   /\ filtered_df' = view
                   /\ kpi' = [k \in 1 .. 4 |-> KpiBlock(k, file.cols, view)]
    /\ pc' = "kpis"
    /\ UNCHANGED << env, fileReads, analysis_df, charts, reports, warnings,
                    uncaught >>

(***************************************************************************)
(* create_dashboard after the KPI section, and the handler around it.      *)
(* A chart block subscripts its columns; a missing one raises KeyError,    *)
(* which ends create_dashboard: the blocks before it stay rendered, the    *)
(* handler reports "An error occurred".                                    *)
(***************************************************************************)
\* The columns block i subscripts on this view.
BlockCols(i, view) ==
    CASE i = 1 -> numeric_columns
      [] i = 2 -> IF Len(view) > 0 THEN latest_columns ELSE {}
      [] i = 3 -> wind_generation_columns
      [] i = 4 -> capacity_columns
      [] i = 5 -> numeric_columns
      [] i = 6 -> profile_columns

\* Mutant: block 2 without its "if len(filtered_df) > 0": iloc[-1] raises
\* IndexError on an empty view.
FailAtNoLengthGuard(cols, view) ==
    LET bad == {i \in 1 .. Len(ChartNames) : ~(BlockCols(i, view) \subseteq cols)}
                \cup (IF Len(view) = 0 THEN {2} ELSE {})
    IN  IF bad = {} THEN 0 ELSE SetMin(bad)

\* The first block that raises, 0 if none does.
FailAt(cols, view) ==
    LET bad == {i \in 1 .. Len(ChartNames) : ~(BlockCols(i, view) \subseteq cols)}
    IN  IF bad = {} THEN 0 ELSE SetMin(bad)

\* Mutant: the yearly aggregates taken from the date-range view.
BlockChartYearlyOfView(i, view, analysis) ==
    CASE i = 1 -> Chart(DailySum(view))
      [] i = 2 -> IF Len(view) > 0 THEN Chart(LatestPies(view)) ELSE Placeholder
      [] i = 3 -> Chart(YearlyWind(view))
      [] i = 4 -> Chart(YearlyCapacity(view))
      [] i = 5 -> Chart(MonthlyPatterns(view))
      [] i = 6 -> Chart(CapacityFactors(view))

\* What block i hands over.
BlockChart(i, view, analysis) ==
    CASE i = 1 -> Chart(DailySum(view))
      [] i = 2 -> IF Len(view) > 0 THEN Chart(LatestPies(view)) ELSE Placeholder
      [] i = 3 -> Chart(YearlyWind(analysis))
      [] i = 4 -> Chart(YearlyCapacity(analysis))
      [] i = 5 -> Chart(MonthlyPatterns(view))
      [] i = 6 -> Chart(CapacityFactors(view))

\* notebook: six blocks, then the footer
NotebookCharts ==
    LET failAt == FailAt(file.cols, filtered_df)
        analysis == filterByYears(df, selected_years)
        done(i) == failAt = 0 \/ i < failAt
    IN  /\ charts' = [i \in 1 .. Len(ChartNames) |->
                        IF done(i) THEN BlockChart(i, filtered_df, analysis)
                        ELSE NoChart]
        /\ analysis_df' = IF failAt = 0 \/ failAt >= 3 THEN analysis ELSE NoView
        /\ warnings' = IF done(2) /\ Len(filtered_df) = 0
                       THEN Append(warnings, MsgNoData) ELSE warnings
        /\ reports' = IF failAt = 0 THEN reports ELSE Append(reports, MsgError)

\* streamlit: without plotly a warning and return; with it
\* "col1 = st.columns(1)" is a list, and "with col1:" raises before any
\* chart block runs.
StreamlitCharts ==
    /\ IF plotly
       THEN /\ reports' = Append(reports, MsgError)
            /\ warnings' = warnings
       ELSE /\ warnings' = Append(warnings, MsgChartsDisabled)
            /\ reports' = reports
    /\ UNCHANGED << charts, analysis_df >>

RenderCharts ==
    /\ pc = "kpis"
    /\ IF variant = "notebook" THEN NotebookCharts ELSE StreamlitCharts
    /\ pc' = "done"
    /\ UNCHANGED << env, fileReads, df, selected_dates, selected_years,
                    filtered_df, kpi, uncaught >>

(***************************************************************************)
(* A widget interaction: the framework runs the script again from the top. *)
(***************************************************************************)
Rerun ==
    /\ pc \in {"done", "crashed"}
    /\ fileReads < MaxCycles
    /\ pc' = "start"
    /\ df' = <<>>
    /\ selected_dates' = <<>>
    /\ selected_years' = {}
    /\ filtered_df' = NoView
    /\ analysis_df' = NoView
    /\ kpi' = NoKpis
    /\ charts' = NoCharts
    /\ reports' = <<>>
    /\ warnings' = <<>>
    /\ uncaught' = ""
    /\ UNCHANGED << env, fileReads >>

Next == LoadData \/ RenderKpis \/ RenderCharts \/ Rerun

Spec == Init /\ [][Next]_vars

(***************************************************************************)
(* Properties.                                                             *)
(***************************************************************************)
KpisRendered == kpi # NoKpis

RowSet(view) == {view[i] : i \in 1 .. Len(view)}

IsSortedByTs(view) ==
    \A i, j \in 1 .. Len(view) : i < j => view[i].ts < view[j].ts

\* view holds exactly the rows of table that satisfy Keep, in table order
\* (timestamps are distinct, so a row occurs once)
HoldsExactly(view, table, Keep(_)) ==
    /\ RowSet(view) = {r \in RowSet(table) : Keep(r)}
    /\ Len(view) = Cardinality(RowSet(view))
    /\ IsSortedByTs(view)

\* the rows of the view with a value in column c
Valued(view, c) == {i \in 1 .. Len(view) : view[i].v[c] # NaN}

\* KPI k has data and a non-zero denominator on this view
WellDefined(k, view) ==
    CASE k = 1 ->
            /\ Valued(view, SolarGen) # {}
            /\ Valued(view, WindGen) # {}
            /\ \E i \in Valued(view, LoadActual) : view[i].v[LoadActual] # 0
      [] k = 2 ->
            /\ Valued(view, SolarGen) # {}
            /\ \E i \in Valued(view, SolarCap) : view[i].v[SolarCap] # 0
      [] k = 3 ->
            /\ Valued(view, WindOffCap) # {}
            /\ \E i \in Valued(view, WindCap) : view[i].v[WindCap] # 0
      [] k = 4 ->
            /\ Valued(view, LoadActual) \cap Valued(view, LoadForecast) # {}
            /\ \A i \in 1 .. Len(view) : view[i].v[LoadActual] # 0

\* C1: KPI isolation.  Once the KPI section has run, a KPI with a column
\* missing from the table shows N/A, and it alone: every KPI whose columns
\* are present shows the value of its own formula, a finite number
\* whenever it has data and a non-zero denominator; no exception of a KPI
\* block has left the section (nothing is reported, nothing is uncaught).
C1_KpiIsolation ==
    KpisRendered =>
        /\ \A k \in 1 .. 4 :
            /\ ~(KpiCols(k) \subseteq file.cols) => kpi[k] = NA
            /\ KpiCols(k) \subseteq file.cols =>
                /\ kpi[k] # NA
                /\ kpi[k] = Fmt1(KpiValue(k, filtered_df))
                /\ WellDefined(k, filtered_df) => kpi[k].k = "num"
        /\ uncaught = ""
        /\ pc = "kpis" => \A i \in 1 .. Len(reports) : reports[i] # MsgError

\* C1 witness: the forecast column is missing, load forecast accuracy
\* shows N/A and the other three show numbers.
C1_Witness ==
    /\ pc = "kpis"
    /\ file.cols = AllCols \ {LoadForecast}
    /\ kpi[4] = NA
    /\ \A k \in 1 .. 3 : kpi[k].k = "num"

\* C2: with the load column present and the load of the view summing to 0
\* (the empty view included), average renewable share shows N/A.
C2_ZeroLoadShowsNA ==
    (KpisRendered /\ KpiCols(1) \subseteq file.cols
        /\ SumCol(filtered_df, LoadActual) = 0)
    => kpi[1] = NA

\* the maximum of column c over the view exists and is 0
MaxIsZero(view, c) ==
    /\ Valued(view, c) # {}
    /\ \A i \in Valued(view, c) : view[i].v[c] = 0

\* C3: with its columns present, solar capacity utilization shows N/A when
\* the maximum solar capacity is 0, offshore wind share shows N/A when the
\* maximum total wind capacity is 0, and load forecast accuracy shows N/A
\* when some record has actual load 0.
C3_ZeroDenominatorShowsNA ==
    KpisRendered =>
        /\ (KpiCols(2) \subseteq file.cols /\ MaxIsZero(filtered_df, SolarCap))
            => kpi[2] = NA
        /\ (KpiCols(3) \subseteq file.cols /\ MaxIsZero(filtered_df, WindCap))
            => kpi[3] = NA
        /\ (KpiCols(4) \subseteq file.cols
                /\ \E i \in 1 .. Len(filtered_df) : filtered_df[i].v[LoadActual] = 0)
            => kpi[4] = NA

C5_DateRangeFilter ==
    (KpisRendered /\ Len(selected_dates) = 2) =>
        LET start == selected_dates[1]
            end == selected_dates[2]
            Keep(r) == start <= DateOf(r.ts) /\ DateOf(r.ts) <= end
        IN  /\ HoldsExactly(filtered_df, df, Keep)
            /\ start > end => filtered_df = <<>>
            /\ uncaught = ""
            /\ pc = "kpis" => \A i \in 1 .. Len(reports) : reports[i] # MsgError

\* C5 witness: start > end on a table with rows, and the view is empty.
C5_Witness ==
    /\ pc = "kpis"
    /\ Len(selected_dates) = 2
    /\ selected_dates[1] > selected_dates[2]
    /\ Len(df) > 0
    /\ filtered_df = <<>>

\* C6: with a non-zero load sum, the displayed average renewable share is
\* (sum of solar + sum of wind) / (sum of load) x 100 over the view, also
\* when records lack a value in one of the three columns.
C6_ShareIsRatioOfSums ==
    (KpisRendered /\ KpiCols(1) \subseteq file.cols
        /\ SumCol(filtered_df, LoadActual) # 0)
    => kpi[1] = Fmt1(Num((SumCol(filtered_df, SolarGen)
                            + SumCol(filtered_df, WindGen)) * 100,
                         SumCol(filtered_df, LoadActual)))

\* the sum of column c over the rows I of the view
RECURSIVE CellSum(_, _, _)
CellSum(view, c, I) ==
    IF I = {} THEN 0
    ELSE LET i == CHOOSE j \in I : TRUE
         IN  view[i].v[c] + CellSum(view, c, I \ {i})

\* m is the mean of column c over the valued rows among I (NaN if none)
IsMeanOf(m, view, c, I) ==
    LET J == I \cap Valued(view, c)
    IN  IF J = {} THEN m = FNaN
        ELSE m.k = "num" /\ m.n * Cardinality(J) = m.d * CellSum(view, c, J)

\* m is the maximum of column c over the valued rows among I (NaN if none)
IsMaxOf(m, view, c, I) ==
    LET J == I \cap Valued(view, c)
    IN  IF J = {} THEN m = FNaN
        ELSE /\ m.k = "num" /\ m.d = 1
             /\ \E i \in J : view[i].v[c] = m.n
             /\ \A i \in J : view[i].v[c] <= m.n

RowsInYear(view, y) == {j \in 1 .. Len(view) : YearOf(view[j].ts) = y}
RowsOnDate(view, d) == {j \in 1 .. Len(view) : DateOf(view[j].ts) = d}

\* data has one row per year of the view
OneRowPerYear(data, view) ==
    /\ {data[i].year : i \in 1 .. Len(data)}
          = {YearOf(view[j].ts) : j \in 1 .. Len(view)}
    /\ \A i, j \in 1 .. Len(data) : i # j => data[i].year # data[j].year

\* C7: the yearly tables hold one row per calendar year of the
\* year-filtered view; each wind generation field is the mean and each
\* capacity field the maximum of that field over the year's records
\* (capacities 100, 100, 150, 150 give 150).
C7_YearlyReducers ==
    /\ charts[3].state = "chart" =>
        LET data == charts[3].data
        IN  /\ OneRowPerYear(data, analysis_df)
            /\ \A i \in 1 .. Len(data), c \in {WindOnGen, WindOffGen} :
                  IsMeanOf(data[i].v[c], analysis_df, c,
                           RowsInYear(analysis_df, data[i].year))
    /\ charts[4].state = "chart" =>
        LET data == charts[4].data
        IN  /\ OneRowPerYear(data, analysis_df)
            /\ \A i \in 1 .. Len(data),
                  c \in {SolarCap, WindCap, WindOnCap, WindOffCap} :
                  IsMaxOf(data[i].v[c], analysis_df, c,
                          RowsInYear(analysis_df, data[i].year))
            /\ file = FixtureCapacity =>
                  /\ Len(data) = 1
                  /\ data[1].v[SolarCap] = Num(150, 1)

\* C7 witness: the capacity fixture aggregated: one row, capacity 150.
C7_Witness ==
    /\ pc = "done"
    /\ file = FixtureCapacity
    /\ charts[4].state = "chart"
    /\ charts[4].data[1].v[WindCap] = Num(150, 1)
    /\ charts[3].state = "chart"

\* each field of each row of data is the sum of the field over the view's
\* records of the row's day
RowsAreDaySums(data, view) ==
    \A i \in 1 .. Len(data), c \in {SolarGen, WindGen, LoadActual} :
        data[i].v[c] =
            CellSum(view, c, RowsOnDate(view, data[i].date) \cap Valued(view, c))

RecordDays(view) == {DateOf(view[j].ts) : j \in 1 .. Len(view)}

\* C8 as stated: the daily sums have one row per day on which the view has
\* a record, no other row, and each field is the sum over that day.
C8_DailySumOneRowPerRecordDay ==
    charts[1].state = "chart" =>
        LET data == charts[1].data
        IN  /\ {data[i].date : i \in 1 .. Len(data)} = RecordDays(filtered_df)
            /\ Len(data) = Cardinality(RecordDays(filtered_df))
            /\ RowsAreDaySums(data, filtered_df)

\* C8 amended: the daily sums have one row per calendar day from the first
\* to the last day of the view (a day in between without records has a
\* row of zeros), in order; each field is the sum over that day's records;
\* a single-day view gives one row (solar 1, 2, 3, 4 give 10).
C8_DailySumSpansDays ==
    charts[1].state = "chart" =>
        LET data == charts[1].data
            days == RecordDays(filtered_df)
        IN  /\ {data[i].date : i \in 1 .. Len(data)} =
                  {d \in 0 .. MaxDay + 1 :
                      \E a, b \in days : a <= d /\ d <= b}
            /\ \A i, j \in 1 .. Len(data) : i < j => data[i].date < data[j].date
            /\ RowsAreDaySums(data, filtered_df)
            /\ Cardinality(days) = 1 => Len(data) = 1
            /\ (file = FixtureSingleDay /\ filtered_df = df) =>
                  data[1].v[SolarGen] = 10

\* C8 witness: a view with records on two days and none on the day in
\* between: three rows, the middle one of zeros.
C8_Witness ==
    /\ charts[1].state = "chart"
    /\ Cardinality(RecordDays(filtered_df)) = 2
    /\ Len(charts[1].data) = 3
    /\ \A c \in {SolarGen, WindGen, LoadActual} : charts[1].data[2].v[c] = 0

EmptyViewCycle ==
    /\ pc = "done"
    /\ filtered_df = <<>>
    /\ file.cols = AllCols

NothingRaised ==
    /\ uncaught = ""
    /\ \A i \in 1 .. Len(reports) : reports[i] # MsgError

C10_MissingFileReportedOnce ==
    (~fileExists /\ fileReads > 0 /\ pc \in {"done", "crashed"}) =>
        /\ Cardinality({i \in 1 .. Len(reports) : reports[i] = MsgFileNotFound}) = 1
        /\ uncaught = ""
        /\ kpi = NoKpis
        /\ charts = NoCharts


IsNonDecreasing(view) ==
    \A i, j \in 1 .. Len(view) : i < j => view[i].ts <= view[j].ts

CalendarInSync(view) ==
    \A i \in 1 .. Len(view) :
        /\ view[i].year = YearOf(view[i].ts)
        /\ view[i].month = MonthOf(view[i].ts)
        /\ view[i].date = DateOf(view[i].ts)

TimestampsOf(rows) == {rows[i].ts : i \in 1 .. Len(rows)}

FileOutOfOrder ==
    \E i, j \in 1 .. Len(file.rows) : i < j /\ file.rows[i].ts > file.rows[j].ts

\* C11: whatever the order of the rows in the file, the loaded table is
\* sorted non-decreasing by timestamp and holds the file's records; the
\* table the filters and aggregators work on, the date-range view and the
\* year-membership view are sorted too, and in each of them every record's
\* year, month and date are those of the record's own timestamp.
C11_SortedAndInSync ==
    /\ pc = "loaded" =>
        /\ IsNonDecreasing(df)
        /\ RowSet(df) = RowSet(file.rows)
    /\ pc \in {"kpis", "done"} /\ KpisRendered =>
        /\ Len(df) = Len(file.rows)
        /\ TimestampsOf(df) = TimestampsOf(file.rows)
        /\ IsNonDecreasing(df) /\ CalendarInSync(df)
        /\ IsNonDecreasing(filtered_df) /\ CalendarInSync(filtered_df)
        /\ analysis_df # NoView =>
            IsNonDecreasing(analysis_df) /\ CalendarInSync(analysis_df)

\* C11 witness: a cycle finished on a file whose rows were out of order,
\* with records in both views.
C11_Witness ==
    /\ pc = "done"
    /\ FileOutOfOrder
    /\ Len(filtered_df) >= 2
    /\ analysis_df # NoView
    /\ Len(analysis_df) >= 2


\* The file's table as the preprocessor leaves it, and its two views, each
\* a function of the file and of one selection only.
TableOfFile == Preprocess(file.rows)
DateViewOfFile == filterByDateRange(TableOfFile, selected_dates)
YearViewOfFile == filterByYears(TableOfFile, selected_years)

\* the years the year selection keeps, whatever the date range
YearsKept ==
    IF selected_years = {} THEN {YearOf(ts) : ts \in TimestampsOf(file.rows)}
    ELSE selected_years \cap {YearOf(ts) : ts \in TimestampsOf(file.rows)}

C13_FileReadOnce == fileExists => fileReads <= 1

CompleteInputCycle ==
    /\ pc = "done"
    /\ plotly
    /\ fileExists
    /\ file.cols = AllCols
    /\ Len(file.rows) >= 1

\* C14 as stated: in both variants a cycle over a table with every
\* required column and at least one row, with the charting library
\* available, runs to completion: the daily sums, the yearly wind and
\* capacity aggregates, the monthly means and the capacity-factor means are
\* computed and handed over, and "An error occurred" is never reported.
C14_CycleRunsToCompletion ==
    CompleteInputCycle =>
        /\ KpisRendered
        /\ \A b \in {1, 3, 4, 5, 6} : charts[b].state = "chart"
        /\ NothingRaised

\* C15: when the date control delivers a selection that does not have
\* exactly two dates, no date filter is applied: the view of the KPIs, the
\* daily sums and the monthly means is the whole table, every record of
\* the file in it, not an empty view and not the records from the single
\* date onward.
C15_PartialSelectionIsWholeTable ==
    (KpisRendered /\ Len(selected_dates) # 2) =>
        /\ filtered_df = df
        /\ Len(filtered_df) = Len(file.rows)
        /\ TimestampsOf(filtered_df) = TimestampsOf(file.rows)
        /\ kpi = [k \in 1 .. 4 |-> KpiBlock(k, file.cols, df)]
        /\ charts[1].state = "chart" => charts[1].data = DailySum(df)
        /\ charts[5].state = "chart" => charts[5].data = MonthlyPatterns(df)

\* C15 witness: a finished cycle with a single date selected, later than
\* the table's first day, whose view still holds the records before it.
C15_Witness ==
    /\ pc = "done"
    /\ Len(selected_dates) = 1
    /\ \E r \in RowSet(filtered_df) : r.date < selected_dates[1]
    /\ charts[1].state = "chart"
    /\ charts[5].state = "chart"

=============================================================================
